---- MODULE Spec2Model ----
(***************************************************************************)
(* Model of src/pages/Home.tsx of car-identifier: the Home component's     *)
(* state (image, analysis, loading, error), its handlers and asynchronous  *)
(* completions (loadDefaultContent, handleImageUpload and its FileReader,  *)
(* handleAnalyze and its analyzeImage request), and the pure function      *)
(* formatAnalysis.                                                         *)
(*                                                                         *)
(* JavaScript values are encoded uniformly as tuples so that they can be   *)
(* compared: null is <<>>, a string used as a message is <<"text">>, a     *)
(* data URI is <<"data:", mime, ";base64,", payload>>. MIME types and the  *)
(* texts given to formatAnalysis are sequences of one-character strings,   *)
(* so that startsWith, split, replace and trim are computed, not assumed.  *)
(***************************************************************************)
EXTENDS Integers, Sequences, FiniteSets, Bags, TLC

VARIABLES
    image,        \* useState<string | null>(null)            Home.tsx:48
    analysis,     \* useState<string>('')                     Home.tsx:49
    loading,      \* useState(false)                          Home.tsx:50
    error,        \* useState<string | null>(null)            Home.tsx:51
    defaultLoad,  \* position of the async loadDefaultContent Home.tsx:56-81
    picker,       \* the native file dialog of the file input: "closed" | "open"
    inputValue,   \* the file the file input holds (e.target.value), NoFile for ''
    readers,      \* bag of the FileReaders of handleImageUpload whose read is pending
    calls,        \* bag of the analyzeImage requests in flight (Home.tsx:121)
    nPicks,       \* number of files handed to handleImageUpload so far
    nPresses,     \* number of presses of the "Identify Car" button so far
    nCalls,       \* number of analyzeImage requests issued so far
    last,         \* history: the handler that ran last, with its argument
    text,         \* formatAnalysis: the argument
    blocks,       \* formatAnalysis: the returned blocks
    rendered      \* formatAnalysis: whether it has been applied to text

vars == <<image, analysis, loading, error, defaultLoad, picker, inputValue, readers, calls,
          nPicks, nPresses, nCalls, last, text, blocks, rendered>>

uiVars == <<image, analysis, loading, error, defaultLoad, picker, inputValue, readers, calls,
            nPicks, nPresses, nCalls, last>>

fmtVars == <<text, blocks, rendered>>

(***************************************************************************)
(* Bounds of the model.                                                    *)
(***************************************************************************)
MaxPicks == 2
MaxPresses == 1
MaxTextLen == 4

(***************************************************************************)
(* Values.                                                                 *)
(***************************************************************************)
NULL == <<>>

Msg(s) == <<s>>

\* 'image/' as a sequence of characters (Home.tsx:90)
ImagePrefix == <<"i", "m", "a", "g", "e", "/">>

T_jpeg == ImagePrefix \o <<"j", "p", "e", "g">>
T_jpg == ImagePrefix \o <<"j", "p", "g">>
T_png == ImagePrefix \o <<"p", "n", "g">>
T_webp == ImagePrefix \o <<"w", "e", "b", "p">>
T_gif == ImagePrefix \o <<"g", "i", "f">>
T_text == <<"t", "e", "x", "t", "/", "p", "l", "a", "i", "n">>
T_unknown == <<>>

\* 20 * 1024 * 1024 (Home.tsx:95)
MaxFileSize == 20 * 1024 * 1024

\* The files the user can hand to the file input. The accept attribute of the
\* input (Home.tsx:204) only preselects a filter in the native dialog; the user
\* can pick a file of any type, so every declared type can reach the handler.
Files ==
    { [type |-> T_png,     size |-> MaxFileSize,     content |-> "A"],
      [type |-> T_gif,     size |-> 1,               content |-> "G"],
      [type |-> T_webp,    size |-> MaxFileSize + 1, content |-> "W"],
      [type |-> T_text,    size |-> 1,               content |-> "T"],
      [type |-> T_unknown, size |-> MaxFileSize - 1, content |-> "U"] }

\* FileReader.readAsDataURL: "data:<type>;base64,<base64 of the bytes>"
DataURI(type, content) == <<"data:", type, ";base64,", content>>

\* the data URI of the blob fetched from DEFAULT_IMAGE (Home.tsx:7, 63-66)
DefaultURI == DataURI(T_jpeg, "default-car")

DEFAULT_ANALYSIS == <<"DEFAULT_ANALYSIS">>

EmptyText == <<>>

carPrompt == "Analyze this car image for educational purposes ..."

\* String.prototype.startsWith on character sequences
StartsWith(s, p) == Len(s) >= Len(p) /\ SubSeq(s, 1, Len(p)) = p


(***************************************************************************)
(* analyzeImage of ../lib/gemini (imported at Home.tsx:3; its code is not  *)
(* part of the sources at hand). It resolves with the service's text for  *)
(* the image it was given, or rejects with a descriptive error.            *)
(***************************************************************************)
Response(imageData) == <<"analysis of", imageData>>

Thrown ==
    { [instanceofError |-> TRUE,  message |-> Msg("Failed to analyze image: transport")],
      [instanceofError |-> FALSE, message |-> Msg("not an Error object")] }

NoFile == [type |-> <<>>, size |-> 0, content |-> "none"]

Event(op, file) == [op |-> op, file |-> file]

(***************************************************************************)
(* Initial state: the useState initial values (Home.tsx:48-51), before the *)
(* effect of Home.tsx:54 has run.                                          *)
(***************************************************************************)
UIInit ==
    /\ image = NULL
    /\ analysis = EmptyText
    /\ loading = FALSE
    /\ error = NULL
    /\ defaultLoad = "unmounted"
    /\ picker = "closed"
    /\ inputValue = NoFile
    /\ readers = EmptyBag
    /\ calls = EmptyBag
    /\ nPicks = 0
    /\ nPresses = 0
    /\ nCalls = 0
    /\ last = Event("render", NoFile)

(***************************************************************************)
(* loadDefaultContent (Home.tsx:56-81), one action per suspension point.   *)
(***************************************************************************)
\* the catch block, Home.tsx:76-80
DefaultCatch ==
    /\ error' = Msg("Failed to load default image")
    /\ loading' = FALSE
    /\ defaultLoad' = "failed"
    /\ UNCHANGED <<image, analysis>>

\* useEffect runs loadDefaultContent up to its first await: Home.tsx:58-59
Mount ==
    /\ defaultLoad = "unmounted"
    /\ loading' = TRUE
    /\ defaultLoad' = "fetching"
    /\ last' = Event("loadDefaultContent", NoFile)
    /\ UNCHANGED <<image, analysis, error, picker, readers, calls,
                   nPicks, nPresses, nCalls>>
    /\ UNCHANGED <<inputValue, fmtVars>>

\* fetch(DEFAULT_IMAGE) resolves; response.ok decides: Home.tsx:59-63
FetchResolve(ok) ==
    /\ defaultLoad = "fetching"
    /\ IF ok
         THEN /\ defaultLoad' = "blob"
              /\ UNCHANGED <<image, analysis, loading, error>>
         ELSE DefaultCatch
    /\ last' = Event("fetch.resolve", NoFile)
    /\ UNCHANGED <<picker, readers, calls, nPicks, nPresses, nCalls>>
    /\ UNCHANGED <<inputValue, fmtVars>>

\* fetch(DEFAULT_IMAGE) rejects: Home.tsx:59, 76-80
FetchReject ==
    /\ defaultLoad = "fetching"
    /\ DefaultCatch
    /\ last' = Event("fetch.reject", NoFile)
    /\ UNCHANGED <<picker, readers, calls, nPicks, nPresses, nCalls>>
    /\ UNCHANGED <<inputValue, fmtVars>>

\* response.blob() resolves; the reader is set up and started: Home.tsx:63-75
BlobResolve ==
    /\ defaultLoad = "blob"
    /\ defaultLoad' = "reading"
    /\ last' = Event("blob.resolve", NoFile)
    /\ UNCHANGED <<image, analysis, loading, error, picker, readers, calls,
                   nPicks, nPresses, nCalls>>
    /\ UNCHANGED <<inputValue, fmtVars>>

\* response.blob() rejects: Home.tsx:63, 76-80
BlobReject ==
    /\ defaultLoad = "blob"
    /\ DefaultCatch
    /\ last' = Event("blob.reject", NoFile)
    /\ UNCHANGED <<picker, readers, calls, nPicks, nPresses, nCalls>>
    /\ UNCHANGED <<inputValue, fmtVars>>

\* mutant of DefaultOnLoadEnd: the canned text is not set
DefaultOnLoadEnd_NoText(result) ==
    /\ image' = result
    /\ loading' = FALSE
    /\ UNCHANGED analysis

\* reader.onloadend of the default reader, Home.tsx:65-70; result is
\* reader.result: the data URI after a successful read, null after a failed one
DefaultOnLoadEnd(result) ==
    /\ image' = result
    /\ analysis' = DEFAULT_ANALYSIS
    /\ loading' = FALSE

\* the read of the default blob succeeds: load, then loadend
DefaultReaderLoad ==
    /\ defaultLoad = "reading"
    /\ DefaultOnLoadEnd(DefaultURI)
    /\ defaultLoad' = "loaded"
    /\ last' = Event("default.onloadend", NoFile)
    /\ UNCHANGED <<error, picker, readers, calls, nPicks, nPresses, nCalls>>
    /\ UNCHANGED <<inputValue, fmtVars>>

\* the read of the default blob fails: the reader fires error and then loadend
\* in the same task, so onerror (Home.tsx:71-74) runs and then onloadend
\* (Home.tsx:65-70) runs with reader.result = null
DefaultReaderError ==
    /\ defaultLoad = "reading"
    /\ error' = Msg("Failed to load default image")
    /\ DefaultOnLoadEnd(NULL)
    /\ defaultLoad' = "failed"
    /\ last' = Event("default.onerror", NoFile)
    /\ UNCHANGED <<picker, readers, calls, nPicks, nPresses, nCalls>>
    /\ UNCHANGED <<inputValue, fmtVars>>

(***************************************************************************)
(* handleAnalyze (Home.tsx:116-129) up to its await: the request is issued *)
(* with the argument and the fixed prompt. before records the analysis     *)
(* text at the time of the call (history, not program state).              *)
(***************************************************************************)
handleAnalyze(imageData) ==
    /\ loading' = TRUE
    /\ error' = NULL
    /\ calls' = calls (+) SetToBag({ [imageData |-> imageData, prompt |-> carPrompt,
                                      before |-> analysis] })
    /\ nCalls' = nCalls + 1

\* analyzeImage resolves: Home.tsx:121-122, 126-128
AnalyzeResolve(c) ==
    /\ BagIn(c, calls)
    /\ analysis' = Response(c.imageData)
    /\ loading' = FALSE
    /\ calls' = calls (-) SetToBag({c})
    /\ last' = Event("analyzeImage.resolve", NoFile)
    /\ UNCHANGED <<image, error, defaultLoad, picker, readers,
                   nPicks, nPresses, nCalls>>
    /\ UNCHANGED <<inputValue, fmtVars>>

\* the message computed at Home.tsx:124
ErrorMessageOf(err) ==
    IF err.instanceofError
      THEN err.message
      ELSE Msg("Failed to analyze image. Please try again.")

\* analyzeImage rejects: Home.tsx:123-128
AnalyzeReject(c, err) ==
    /\ BagIn(c, calls)
    /\ error' = ErrorMessageOf(err)
    /\ loading' = FALSE
    /\ calls' = calls (-) SetToBag({c})
    /\ last' = Event("analyzeImage.reject", NoFile)
    /\ UNCHANGED <<image, analysis, defaultLoad, picker, readers,
                   nPicks, nPresses, nCalls>>
    /\ UNCHANGED <<inputValue, fmtVars>>

\* the "Identify Car" button, rendered when image is truthy and disabled while
\* loading: Home.tsx:224, 235-238
PressIdentify ==
    /\ image # NULL
    /\ ~loading
    /\ picker = "closed"
    /\ nPresses < MaxPresses
    /\ handleAnalyze(image)
    /\ nPresses' = nPresses + 1
    /\ last' = Event("identify.onClick", NoFile)
    /\ UNCHANGED <<image, analysis, defaultLoad, picker, readers, nPicks>>
    /\ UNCHANGED <<inputValue, fmtVars>>

(***************************************************************************)
(* The file input and handleImageUpload (Home.tsx:86-114).                 *)
(***************************************************************************)
\* a click on the "Upload Car Photo" label opens the dialog: Home.tsx:193-207
LabelClick ==
    /\ picker = "closed"
    /\ defaultLoad # "unmounted"
    /\ picker' = "open"
    /\ last' = Event("label.onClick", NoFile)
    /\ UNCHANGED <<image, analysis, loading, error, defaultLoad, readers, calls,
                   nPicks, nPresses, nCalls>>
    /\ UNCHANGED <<inputValue, fmtVars>>

\* the "Upload Another Photo" button, rendered when image is truthy:
\* Home.tsx:131-133, 224, 252-258
triggerFileInput ==
    /\ picker = "closed"
    /\ image # NULL
    /\ picker' = "open"
    /\ last' = Event("triggerFileInput", NoFile)
    /\ UNCHANGED <<image, analysis, loading, error, defaultLoad, readers, calls,
                   nPicks, nPresses, nCalls>>
    /\ UNCHANGED <<inputValue, fmtVars>>

\* the dialog is dismissed without a change of the selection: no event
DismissPicker ==
    /\ picker = "open"
    /\ picker' = "closed"
    /\ last' = Event("picker.dismiss", NoFile)
    /\ UNCHANGED <<image, analysis, loading, error, defaultLoad, readers, calls,
                   nPicks, nPresses, nCalls>>
    /\ UNCHANGED <<inputValue, fmtVars>>

\* the selection the input holds is cleared in the dialog: the change event
\* carries no file and handleImageUpload returns at Home.tsx:87-88
ClearSelection ==
    /\ picker = "open"
    /\ inputValue # NoFile
    /\ picker' = "closed"
    /\ inputValue' = NoFile
    /\ last' = Event("handleImageUpload.nofile", NoFile)
    /\ UNCHANGED <<image, analysis, loading, error, defaultLoad, readers, calls,
                   nPicks, nPresses, nCalls>>
    /\ UNCHANGED fmtVars

\* Home.tsx:90: file.type.startsWith('image/')
TypeOk(file) == StartsWith(file.type, ImagePrefix)

\* mutant of SizeOk: the limit itself is refused (>= for >)
SizeOk_OffByOne(file) == ~(file.size >= MaxFileSize)

\* Home.tsx:95: the negation of file.size > 20 * 1024 * 1024
SizeOk(file) == ~(file.size > MaxFileSize)

\* The change event fires when the selection differs from what the input
\* holds. imageBefore and analysisBefore of a reader record the image and the
\* analysis text at the time of the pick (history, not program state). The
\* input is reset (Home.tsx:113) only when the handler gets as far as the read.
handleImageUpload(file) ==
    /\ picker = "open"
    /\ file # inputValue
    /\ nPicks < MaxPicks
    /\ picker' = "closed"
    /\ nPicks' = nPicks + 1
    /\ last' = Event("handleImageUpload", file)
    /\ IF ~TypeOk(file)
         THEN /\ error' = Msg("Please upload a valid image file")
              /\ inputValue' = file
              /\ UNCHANGED readers
         ELSE IF ~SizeOk(file)
           THEN /\ error' = Msg("Image size should be less than 20MB")
                /\ inputValue' = file
                /\ UNCHANGED readers
           ELSE /\ readers' = readers (+) SetToBag({ [file |-> file, imageBefore |-> image,
                                                  analysisBefore |-> analysis] })
                /\ inputValue' = NoFile
                /\ UNCHANGED error
    /\ UNCHANGED <<image, analysis, loading, defaultLoad, calls, nPresses, nCalls>>
    /\ UNCHANGED fmtVars

\* mutant of UploadOnLoadEnd: the analysis is started with the image state of
\* the current render instead of the string just read
UploadOnLoadEnd_StaleImage(result) ==
    /\ image' = result
    /\ handleAnalyze(image)

\* reader.onloadend of the upload reader, Home.tsx:101-106; result is
\* reader.result: the data URI after a successful read, null after a failed one
UploadOnLoadEnd(result) ==
    /\ image' = result
    /\ handleAnalyze(result)

\* the read succeeds: load, then loadend
ReaderLoad(r) ==
    /\ BagIn(r, readers)
    /\ readers' = readers (-) SetToBag({r})
    /\ UploadOnLoadEnd(DataURI(r.file.type, r.file.content))
    /\ last' = Event("reader.onloadend", r.file)
    /\ UNCHANGED <<analysis, defaultLoad, picker, nPicks, nPresses>>
    /\ UNCHANGED <<inputValue, fmtVars>>

\* the read fails: the reader fires error and then loadend in the same task,
\* so onerror (Home.tsx:107-109) sets the error and then onloadend
\* (Home.tsx:101-106) runs with reader.result = null; its setError(null) and
\* handleAnalyze's are the last writes of error
ReaderError(r) ==
    /\ BagIn(r, readers)
    /\ readers' = readers (-) SetToBag({r})
    /\ UploadOnLoadEnd(NULL)
    /\ last' = Event("reader.onerror", r.file)
    /\ UNCHANGED <<analysis, defaultLoad, picker, nPicks, nPresses>>
    /\ UNCHANGED <<inputValue, fmtVars>>

Next ==
    \/ Mount
    \/ \E ok \in BOOLEAN : FetchResolve(ok)
    \/ FetchReject
    \/ BlobResolve
    \/ BlobReject
    \/ DefaultReaderLoad
    \/ DefaultReaderError
    \/ LabelClick
    \/ triggerFileInput
    \/ DismissPicker
    \/ ClearSelection
    \/ \E file \in Files : handleImageUpload(file)
    \/ \E r \in BagToSet(readers) : ReaderLoad(r)
    \/ \E r \in BagToSet(readers) : ReaderError(r)
    \/ PressIdentify
    \/ \E c \in BagToSet(calls) : AnalyzeResolve(c)
    \/ \E c \in BagToSet(calls), err \in Thrown : AnalyzeReject(c, err)

Init ==
    /\ UIInit
    /\ text = <<>>
    /\ blocks = <<>>
    /\ rendered = FALSE

Spec == Init /\ [][Next]_vars


(***************************************************************************)
(* formatAnalysis (Home.tsx:135-181) on sequences of characters.           *)
(***************************************************************************)
\* the characters texts are built from
Alphabet == {"1", ".", "-", ":", " ", "*", "a", "\n"}

Texts == UNION { [1..n -> Alphabet] : n \in 0..MaxTextLen }

\* the character class of Home.tsx:138: asterisk, underscore, hash, backtick
\* (the backtick character is written "backtick")
Markup == {"*", "_", "#", "backtick"}

\* the class \d of Home.tsx:142, 146
Digits == {"0", "1", "2", "3", "4", "5", "6", "7", "8", "9"}

\* what String.prototype.trim and \s take for white space (those of it that
\* can occur here)
WhiteSpace == {" ", "\t", "\r", "\n"}

\* s.substring(from) with 0-based from
Substring(s, from) == SubSeq(s, from + 1, Len(s))

\* s.indexOf(ch), 0-based, -1 when absent
IndexOf(s, ch) ==
    IF \E i \in 1..Len(s) : s[i] = ch
      THEN (CHOOSE i \in 1..Len(s) : s[i] = ch /\ \A j \in 1..(i - 1) : s[j] # ch) - 1
      ELSE -1

\* s.split(sep) for a one-character separator: an array of strings
RECURSIVE Split(_, _)
Split(s, sep) ==
    LET i == IndexOf(s, sep)
    IN  IF i = -1
          THEN <<s>>
          ELSE <<SubSeq(s, 1, i)>> \o Split(Substring(s, i + 1), sep)

\* parts.join(sep)
RECURSIVE Join(_, _)
Join(parts, sep) ==
    IF Len(parts) = 0 THEN <<>>
    ELSE IF Len(parts) = 1 THEN parts[1]
    ELSE parts[1] \o <<sep>> \o Join(Tail(parts), sep)

\* line.replace(<markup class>, '') with the g flag: Home.tsx:138
RECURSIVE RemoveMarkup(_)
RemoveMarkup(s) ==
    IF s = <<>> THEN <<>>
    ELSE IF Head(s) \in Markup THEN RemoveMarkup(Tail(s))
    ELSE <<Head(s)>> \o RemoveMarkup(Tail(s))

RECURSIVE TrimStart(_)
TrimStart(s) ==
    IF s # <<>> /\ Head(s) \in WhiteSpace THEN TrimStart(Tail(s)) ELSE s

RECURSIVE TrimEnd(_)
TrimEnd(s) ==
    IF s # <<>> /\ s[Len(s)] \in WhiteSpace
      THEN TrimEnd(SubSeq(s, 1, Len(s) - 1))
      ELSE s

\* String.prototype.trim
Trim(s) == TrimEnd(TrimStart(s))

\* the number of leading characters of s that are digits
RECURSIVE LeadingDigits(_)
LeadingDigits(s) ==
    IF s # <<>> /\ Head(s) \in Digits THEN 1 + LeadingDigits(Tail(s)) ELSE 0

\* /^\d+\./.test(cleanLine): Home.tsx:142
IsHeader(cleanLine) ==
    LET n == LeadingDigits(cleanLine)
    IN  n >= 1 /\ Len(cleanLine) > n /\ cleanLine[n + 1] = "."

\* cleanLine.replace(/^\d+\.\s*/, ''): Home.tsx:146
HeaderTitle(cleanLine) ==
    TrimStart(Substring(cleanLine, LeadingDigits(cleanLine) + 1))

\* label.trim() of Home.tsx:154, 158
ItemLabel(cleanLine) == Trim(Split(Substring(cleanLine, 1), ":")[1])

\* mutant of ItemValue: only the part up to the second colon is kept
ItemValue_FirstPartOnly(cleanLine) ==
    LET parts == Split(Substring(cleanLine, 1), ":")
    IN  IF Len(parts) >= 2 THEN Trim(parts[2]) ELSE <<>>

\* valueParts.join(':').trim() of Home.tsx:154-155
ItemValue(cleanLine) == Trim(Join(Tail(Split(Substring(cleanLine, 1), ":")), ":"))

\* the elements returned by the map callback: an h3 (SectionHeader), a
\* label/value pair of spans (LabeledItem), a bullet and a span (BulletItem),
\* a p (ParagraphText); a holds the text or the label, b the value
Block(kind, a, b) == [kind |-> kind, a |-> a, b |-> b]

\* return null of Home.tsx:139
NullBlock == Block("null", <<>>, <<>>)

\* the map callback, Home.tsx:136-179
FormatLine(line) ==
    LET cleanLine == Trim(RemoveMarkup(line))
    IN  IF cleanLine = <<>> THEN NullBlock
        ELSE IF IsHeader(cleanLine)
          THEN Block("SectionHeader", HeaderTitle(cleanLine), <<>>)
        ELSE IF Head(cleanLine) = "-" /\ IndexOf(cleanLine, ":") # -1
          THEN Block("LabeledItem", ItemLabel(cleanLine), ItemValue(cleanLine))
        ELSE IF Head(cleanLine) = "-"
          THEN Block("BulletItem", Trim(Substring(cleanLine, 1)), <<>>)
        ELSE Block("ParagraphText", cleanLine, <<>>)

\* text.split('\n').map(...).filter(Boolean): Home.tsx:136, 180
formatAnalysis(t) ==
    LET lines == Split(t, "\n")
        mapped == [i \in 1..Len(lines) |-> FormatLine(lines[i])]
    IN  SelectSeq(mapped, LAMBDA b : b # NullBlock)

\* {formatAnalysis(analysis)} of Home.tsx:267, applied to the text at hand
Render ==
    /\ ~rendered
    /\ blocks' = formatAnalysis(text)
    /\ rendered' = TRUE
    /\ UNCHANGED text
    /\ UNCHANGED uiVars

FmtInit ==
    /\ UIInit
    /\ text \in Texts
    /\ blocks = <<>>
    /\ rendered = FALSE

FmtNext == Render

SpecFmt == FmtInit /\ [][FmtNext]_vars


(***************************************************************************)
(*                              Properties                                 *)
(***************************************************************************)
Pending(b) == BagCardinality(b)

\* the step is AnalyzeReject of request c
RejectStep(c) ==
    /\ last'.op = "analyzeImage.reject"
    /\ BagIn(c, calls)
    /\ calls' = calls (-) SetToBag({c})

\* C1: every analyze call whose analyzeImage request fails leaves, once it has
\* completed, analysis equal to its value from before the call, error a
\* non-empty string and loading false.
C1_FailedAnalyzeKeepsText ==
    [][\A c \in BagToSet(calls) :
          RejectStep(c) =>
              /\ analysis' = c.before
              /\ error' # NULL
              /\ error' # Msg("")
              /\ loading' = FALSE]_vars

\* the declared types that are image types
ImageTypes == {T_jpeg, T_jpg, T_png, T_webp, T_gif}

\* the step is handleImageUpload of file f
PickStep(f) ==
    /\ last'.op = "handleImageUpload"
    /\ last'.file = f
    /\ nPicks' = nPicks + 1

\* C2: a picked file whose declared type is not an image type, or whose size
\* exceeds 20 x 1024 x 1024 bytes, is rejected: error is set, no file read is
\* started, no analyze call is issued, and image, analysis and loading keep
\* their values; an image file of exactly 20 x 1024 x 1024 bytes is not
\* rejected (its read is started and no error is set).
C2_InvalidFileRejected ==
    [][\A f \in Files :
          PickStep(f) =>
              /\ (f.type \notin ImageTypes \/ f.size > 20 * 1024 * 1024) =>
                    /\ error' # NULL
                    /\ readers' = readers
                    /\ calls' = calls
                    /\ nCalls' = nCalls
                    /\ image' = image
                    /\ analysis' = analysis
                    /\ loading' = loading
              /\ (f.type \in ImageTypes /\ f.size = 20 * 1024 * 1024) =>
                    /\ Pending(readers') = Pending(readers) + 1
                    /\ \E r \in BagToSet(readers') : r.file = f
                    /\ error' = error]_vars

\* C2 witness: an oversized file was just refused while the default image and
\* its canned text were on display
C2_Witness ==
    /\ last.op = "handleImageUpload"
    /\ last.file.size > MaxFileSize
    /\ error # NULL
    /\ image = DefaultURI
    /\ analysis = DEFAULT_ANALYSIS
    /\ readers = EmptyBag
    /\ calls = EmptyBag

\* the step is ReaderError of reader r
ReadErrorStep(r) ==
    /\ last'.op = "reader.onerror"
    /\ BagIn(r, readers)
    /\ readers' = readers (-) SetToBag({r})

\* C3: when the read of an accepted file fails, then after the reader's
\* callbacks have run error is set, image and analysis are as before the pick,
\* and no analyze call has been issued for that pick.
C3_ReadErrorAborts ==
    [][\A r \in BagToSet(readers) :
          ReadErrorStep(r) =>
              /\ error' # NULL
              /\ image' = r.imageBefore
              /\ analysis' = r.analysisBefore
              /\ nCalls' = nCalls
              /\ calls' = calls]_vars

\* the step is ReaderLoad of reader r
ReadLoadStep(r) ==
    /\ last'.op = "reader.onloadend"
    /\ BagIn(r, readers)
    /\ readers' = readers (-) SetToBag({r})

\* C4: when the read of an accepted file succeeds, image becomes the new data
\* URI, error is cleared, and exactly one analyze call is started in the same
\* step, with that data URI and the fixed prompt.
C4_ReadSuccessStartsOneAnalyze ==
    [][\A r \in BagToSet(readers) :
          ReadLoadStep(r) =>
              LET uri == DataURI(r.file.type, r.file.content)
              IN  /\ image' = uri
                  /\ error' = NULL
                  /\ nCalls' = nCalls + 1
                  /\ \E c \in BagToSet(calls') :
                        /\ calls' = calls (+) SetToBag({c})
                        /\ c.imageData = uri
                        /\ c.prompt = carPrompt]_vars

\* C4 witness: a read has just succeeded while the default image was on
\* display, and the request in flight carries the new image
C4_Witness ==
    /\ last.op = "reader.onloadend"
    /\ image = DataURI(last.file.type, last.file.content)
    /\ image # DefaultURI
    /\ error = NULL
    /\ \E c \in BagToSet(calls) : c.imageData = image /\ c.before = DEFAULT_ANALYSIS

NoUserAction == nPicks = 0 /\ nPresses = 0

C6_SingleInFlight == Pending(calls) <= 1

\* the types the file input accepts
AcceptTypes == {T_jpeg, T_jpg, T_png, T_webp}

\* C7: every file handleImageUpload accepts for encoding has a declared type
\* in {image/jpeg, image/jpg, image/png, image/webp}; a file of any other
\* declared type is rejected before any encoding attempt.
C7_OnlyAcceptTypesRead ==
    \A r \in BagToSet(readers) : r.file.type \in AcceptTypes

\* C9: loading is true whenever at least one analyze call is in flight.
C9_LoadingWhileInFlight == Pending(calls) >= 1 => loading

\* C10: when no default-content load, file read or analyze call is pending and
\* error is none, analysis belongs to image: it is the service's result for
\* that image, or the canned text while image is the default image.
C10_TextBelongsToImage ==
    ( /\ defaultLoad \in {"loaded", "failed"}
      /\ readers = EmptyBag
      /\ calls = EmptyBag
      /\ error = NULL )
    => \/ analysis = Response(image)
       \/ analysis = DEFAULT_ANALYSIS /\ image = DefaultURI

(***************************************************************************)
(* C8: the blocks of a text, stated line by line.                          *)
(***************************************************************************)
\* the k-th smallest element of a set of numbers
Kth(S, k) == CHOOSE x \in S : Cardinality({y \in S : y <= x}) = k

LineBreaks(t) == {i \in 1..Len(t) : t[i] = "\n"}

NumLines(t) == Cardinality(LineBreaks(t)) + 1

\* the k-th line of t: the characters between two successive line breaks
LineOf(t, k) ==
    LET from == IF k = 1 THEN 1 ELSE Kth(LineBreaks(t), k - 1) + 1
        to == IF k = NumLines(t) THEN Len(t) ELSE Kth(LineBreaks(t), k) - 1
    IN  SubSeq(t, from, to)

\* s without its surrounding white space
Unpadded(s) ==
    LET solid == {i \in 1..Len(s) : s[i] \notin WhiteSpace}
    IN  IF solid = {} THEN <<>>
        ELSE SubSeq(s, Kth(solid, 1), Kth(solid, Cardinality(solid)))

\* s without its leading white space
Unindented(s) ==
    LET solid == {i \in 1..Len(s) : s[i] \notin WhiteSpace}
    IN  IF solid = {} THEN <<>> ELSE SubSeq(s, Kth(solid, 1), Len(s))

\* the line with the markup characters taken out and the surrounding white
\* space stripped
Stripped(line) == Unpadded(SelectSeq(line, LAMBDA ch : ch \notin Markup))

\* the lengths n of a prefix of s made of n >= 1 digits and a period
NumeralPrefix(s) ==
    {n \in 2..Len(s) : s[n] = "." /\ \A i \in 1..(n - 1) : s[i] \in Digits}

\* the block of a stripped, non-empty line s, by the first rule that matches;
\* dropSpace says whether the white space after the numeral/period prefix is
\* left out of a SectionHeader's title
BlockOf(s, dropSpace) ==
    LET colons == {i \in 1..Len(s) : s[i] = ":"}
    IN  IF NumeralPrefix(s) # {}
          THEN LET n == CHOOSE m \in NumeralPrefix(s) : TRUE
                   rest == SubSeq(s, n + 1, Len(s))
               IN  Block("SectionHeader", IF dropSpace THEN Unindented(rest) ELSE rest, <<>>)
        ELSE IF s[1] = "-" /\ colons # {}
          THEN LET k == Kth(colons, 1)
               IN  Block("LabeledItem", Unpadded(SubSeq(s, 2, k - 1)),
                         Unpadded(SubSeq(s, k + 1, Len(s))))
        ELSE IF s[1] = "-"
          THEN Block("BulletItem", Unpadded(SubSeq(s, 2, Len(s))), <<>>)
        ELSE Block("ParagraphText", s, <<>>)

\* one block per line that is non-empty once stripped, in line order
BlocksOf(t, dropSpace) ==
    LET kept == {k \in 1..NumLines(t) : Stripped(LineOf(t, k)) # <<>>}
    IN  [j \in 1..Cardinality(kept) |-> BlockOf(Stripped(LineOf(t, Kth(kept, j))), dropSpace)]

\* C8 as stated: formatAnalysis(text) is, in line order, one block for each
\* line that is non-empty after stripping, chosen by the first matching rule,
\* a SectionHeader's title being the remainder after the numeral/period prefix.
C8_BlocksAsStated == rendered => blocks = BlocksOf(text, FALSE)

\* C8 as amended: the same, a SectionHeader's title being the remainder after
\* the numeral/period prefix and the white space that follows it.
C8_BlocksTitleUnindented == rendered => blocks = BlocksOf(text, TRUE)

\* C8 witness: a rendered text with a LabeledItem whose value keeps a colon
C8_Witness ==
    /\ rendered
    /\ \E i \in 1..Len(blocks) :
          /\ blocks[i].kind = "LabeledItem"
          /\ \E j \in 1..Len(blocks[i].b) : blocks[i].b[j] = ":"

====
